---- MODULE Spec2Model ----
(***************************************************************************)
(* Model of the TRANSTAR-NAGEL reconciliation engine                       *)
(* (src/transtar_nagel_final.py): TransportOrder / Gutschrift records,     *)
(* FinalDocumentParser and FinalDocumentProcessor, and of the upload       *)
(* handler of the web service (src/web_app/app.py) with its global         *)
(* processing_status.                                                      *)
(*                                                                         *)
(* Representation.                                                         *)
(*  - A document is the record of what each regular expression of the     *)
(*    parser captures in its text (the captured group, or NoMatch).        *)
(*  - A number text is the sequence of its characters; a float is the      *)
(*    integer number of 1/10000 EUR it denotes, so that                    *)
(*    total * (percent / 100) is exact for amounts with two decimals.      *)
(*  - A date text DD.MM.YYYY is the tuple <<DD, MM, YYYY>>, the empty      *)
(*    string is <<>>.                                                      *)
(*  - An address is [text, city]: the address string and the token that    *)
(*    follows its "D ddddd" postal marker ("" when there is none).         *)
(*  - None is <<>>, an object x is <<x>>.                                  *)
(***************************************************************************)
EXTENDS Integers, Sequences, FiniteSets, TLC

VARIABLES
    order_files,        \* orders_path.glob("*.pdf"), as file names in listing order
    gs_files,           \* gutschrifts_path.glob("*.pdf"), the same
    new_orders,         \* constructor calls the caller of the library still makes
    transport_orders,   \* FinalDocumentProcessor.transport_orders
    gutschrifts,        \* FinalDocumentProcessor.gutschrifts
    oi,                 \* load_documents: number of order files visited
    gi,                 \* load_documents: number of credit-note files visited
    df,                 \* rows of the DataFrame the last generate_report returned
    indexer,            \* the row order sort_values chose in that call
    fills,              \* per row of df, the highlights export_to_excel_custom set
    op,                 \* the operation that ran last
    runs,               \* match_documents runs since the lists last changed
    processing_status,  \* web_app: the dict the global name is bound to
    bound_by,           \* the request whose assignment bound that dict, 0 for
                        \* the module's own
    uploads,            \* per request, the files it posts
    pc,                 \* per request, the line of upload_files it is at
    processors,         \* per request, the lists of its FinalDocumentProcessor
    responses           \* per request, what upload_files returned

library == <<order_files, gs_files, new_orders, transport_orders, gutschrifts,
             oi, gi, df, indexer, fills, op, runs>>

web == <<processing_status, bound_by, uploads, pc, processors, responses>>

vars == <<library, web>>

-----------------------------------------------------------------------------
(* Bounds of the model.                                                    *)

MaxOrderFiles == 3
MaxGsFiles == 2
MaxNewOrders == 1
MaxPoints == 2
MaxRuns == 2
MaxRequests == 2

-----------------------------------------------------------------------------
(* Generic helpers.                                                        *)

NoMatch == <<>>
None == <<>>
Some(x) == <<x>>

Range(s) == {s[i] : i \in 1..Len(s)}

SeqsUpTo(S, n) == UNION {[1..k -> S] : k \in 0..n}

\* the ascending listings of at most n numbers of S
SortedSeqs(S, n) ==
    {s \in SeqsUpTo(S, n) : \A i, j \in 1..Len(s) : i < j => s[i] < s[j]}

RECURSIVE SumSeq(_)
SumSeq(s) == IF s = <<>> THEN 0 ELSE Head(s) + SumSeq(Tail(s))

RECURSIVE Join(_, _)
\* sep.join(s) for a sequence of strings
Join(sep, s) ==
    IF s = <<>> THEN ""
    ELSE IF Len(s) = 1 THEN s[1]
    ELSE s[1] \o sep \o Join(sep, Tail(s))

RECURSIVE Concat(_)
Concat(s) == IF s = <<>> THEN "" ELSE Head(s) \o Concat(Tail(s))

-----------------------------------------------------------------------------
(* parse_german_number: text.replace('.', '').replace(',', '.') -> float   *)

Digits == {"0", "1", "2", "3", "4", "5", "6", "7", "8", "9"}

DigitVal(c) ==
    CASE c = "0" -> 0 [] c = "1" -> 1 [] c = "2" -> 2 [] c = "3" -> 3
      [] c = "4" -> 4 [] c = "5" -> 5 [] c = "6" -> 6 [] c = "7" -> 7
      [] c = "8" -> 8 [] c = "9" -> 9

RECURSIVE DigitsVal(_)
\* the integer a sequence of digits denotes
DigitsVal(s) ==
    IF s = <<>> THEN 0
    ELSE 10 * DigitsVal(SubSeq(s, 1, Len(s) - 1)) + DigitVal(s[Len(s)])

RECURSIVE Pow10(_)
Pow10(n) == IF n = 0 THEN 1 ELSE 10 * Pow10(n - 1)

\* float(s) of a string over digits and '.', in 1/10000: <<TRUE, value>>, or
\* <<FALSE, 0>> where float() raises ValueError
PyFloat(s) ==
    LET dots == {i \in 1..Len(s) : s[i] = "."}
        ok == /\ \A i \in 1..Len(s) : s[i] \in Digits \cup {"."}
              /\ Cardinality(dots) <= 1
              /\ Cardinality(dots) < Len(s)
        p == IF dots = {} THEN Len(s) + 1 ELSE CHOOSE i \in dots : TRUE
        ip == SubSeq(s, 1, p - 1)
        fp == SubSeq(s, p + 1, Len(s))
        fp4 == IF Len(fp) > 4 THEN SubSeq(fp, 1, 4) ELSE fp
    IN  IF ok
        THEN <<TRUE, DigitsVal(ip) * 10000 + DigitsVal(fp4) * Pow10(4 - Len(fp4))>>
        ELSE <<FALSE, 0>>

parse_german_number(text) ==
    LET nodots == SelectSeq(text, LAMBDA c : c # ".")
        swapped == [i \in 1..Len(nodots) |->
                       IF nodots[i] = "," THEN "." ELSE nodots[i]]
        f == PyFloat(swapped)
    IN  IF f[1] THEN f[2] ELSE 0

-----------------------------------------------------------------------------
(* TransportOrder                                                          *)

\* the dataclass defaults of every field but order_number, date and vehicle
OrderDefaults ==
    [tour |-> "", loading_points |-> <<>>, unloading_points |-> <<>>,
     empty_km |-> 0, loaded_km |-> 0, total_km |-> 0, gps_km |-> 0,
     planned_freight |-> 0, planned_maut |-> 0, planned_total |-> 0,
     gutschrift_amount |-> 0, gutschrift_freight |-> 0, gutschrift_maut |-> 0,
     gutschrift_number |-> "", gutschrift_date |-> <<>>,
     payment_percent |-> 100]

\* __post_init__: the derived fields, computed once from the constructor's
\* arguments
post_init(o) ==
    LET total == o.empty_km + o.loaded_km
    IN  [o EXCEPT !.total_km = total,
                  !.planned_total = o.planned_freight + o.planned_maut,
                  !.gps_km = IF o.gps_km = 0 THEN total ELSE o.gps_km]

\* TransportOrder(order_number=..., date=..., vehicle=..., **kw): kw is a record
\* of keyword arguments, every field it does not name keeps its default
TransportOrder(order_number, date, vehicle, kw) ==
    LET given == [order_number |-> order_number, date |-> date,
                  vehicle |-> vehicle]
    IN  post_init(kw @@ given @@ OrderDefaults)

\* the five fields match_documents writes
ReconFields ==
    {"gutschrift_amount", "gutschrift_freight", "gutschrift_maut",
     "gutschrift_number", "gutschrift_date"}

Recon(o) == [f \in ReconFields |-> o[f]]

NonRecon(o) == [f \in (DOMAIN o) \ ReconFields |-> o[f]]

-----------------------------------------------------------------------------
(* TransportOrder._format_city and TransportOrder.format_tour              *)

\* "needle in hay" for the city tokens and address texts of the model: equal
\* strings, or one of the proper containments among them
ProperSubstrings ==
    {<<"ESSEN", "ESSEN-KETTWIG">>, <<"NAGEL", "NAGEL LOGISTIK">>,
     <<"EDEKA", "EDEKA ZENTRALE">>}

Contains(hay, needle) == hay = needle \/ <<needle, hay>> \in ProperSubstrings

\* the if/elif chain on the city token, in source order
CityTable ==
    << <<"GROSS-GERAU", "Groß-Gerau">>, <<"ESCHWEILER", "Eschweiler">>,
       <<"VOELKLINGEN", "Völklingen">>, <<"VÖLKLINGEN", "Völklingen">>,
       <<"SAARLOUIS", "Saarlouis">>, <<"TROISDORF", "Troisdorf">>,
       <<"LADENBURG", "Ladenburg">>, <<"RASTATT", "Rastatt">>,
       <<"BEXBACH", "Bexbach">>, <<"WESEL", "Wesel">>,
       <<"LANGENFELD", "Langenfeld">>, <<"BOCHUM", "Bochum">>,
       <<"HELMOND", "Helmond">>, <<"ESSEN", "Essen">>,
       <<"KLEINBLITTERSDORF", "Kleinblittersdorf">>,
       <<"DORTMUND", "Dortmund">>, <<"WUNSTORF", "Wunstorf">>,
       <<"HEDDESHEIM", "Heddesheim">>, <<"RAUNHEIM", "Raunheim">>,
       <<"ROSBACH", "Rosbach">>, <<"HAUNECK", "Hauneck">>,
       <<"KÖLN", "Köln">>, <<"KOLN", "Köln">>,
       <<"LEVERKUSEN", "Leverkusen">> >>

\* the company fallback, in source order
CompanyTable ==
    << <<"NAGEL", "Na">>, <<"EDEKA", "Edeka">>, <<"BAKERMAN", "Bakerman">>,
       <<"LACTALIS", "Lactalis">> >>

\* str.title() on the city tokens of the model that are in no table
Title(city) ==
    CASE city = "HAMBURG" -> "Hamburg"
      [] city = "BAD-HERSFELD" -> "Bad-Hersfeld"
      [] OTHER -> city

\* the label of the first table entry whose key the text contains, else dflt
Lookup(table, text, dflt) ==
    LET hits == {i \in 1..Len(table) : Contains(text, table[i][1])}
    IN  IF hits = {} THEN dflt
        ELSE table[CHOOSE i \in hits : \A j \in hits : i <= j][2]

_format_city(address) ==
    IF address.city # ""
    THEN Lookup(CityTable, address.city, Title(address.city))
    ELSE Lookup(CompanyTable, address.text, "")

\* the loop "if l and l not in seen: append, seen.add": <<unique, seen>>
RECURSIVE Unique(_, _, _)
Unique(labels, acc, seen) ==
    IF labels = <<>> THEN <<acc, seen>>
    ELSE LET l == Head(labels)
         IN  IF l # "" /\ l \notin seen
             THEN Unique(Tail(labels), Append(acc, l), seen \cup {l})
             ELSE Unique(Tail(labels), acc, seen)

Labels(points) == [i \in 1..Len(points) |-> _format_city(points[i])]

\* unique_loads: deduplicated from an empty seen set
unique_loads(o) == Unique(Labels(o.loading_points), <<>>, {})[1]

\* unique_unloads: deduplicated with the seen set the loading loop left
unique_unloads(o) ==
    Unique(Labels(o.unloading_points), <<>>,
           Unique(Labels(o.loading_points), <<>>, {})[2])[1]

\* mutant of format_tour: several destinations are joined by "-", not "+"
format_tour_dash(o) ==
    LET L == unique_loads(o)
        U == unique_unloads(o)
    IN  IF L # <<>> \/ U # <<>> THEN Join("-", L \o U) ELSE o.tour

format_tour(o) ==
    LET L == unique_loads(o)
        U == unique_unloads(o)
    IN  IF (o.loading_points # <<>> \/ o.unloading_points # <<>>)
           /\ (L # <<>> \/ U # <<>>)
        THEN IF L # <<>> /\ U # <<>>
             THEN IF Len(L) = 1 /\ Len(U) = 1 THEN L[1] \o "-" \o U[1]
                  ELSE IF Len(L) = 1 /\ Len(U) > 1
                       THEN L[1] \o "-" \o Join("+", U)
                       ELSE Join("-", L \o U)
             ELSE IF L # <<>> THEN Join("-", L)
             ELSE Join("-", U)
        ELSE o.tour

-----------------------------------------------------------------------------
(* FinalDocumentParser                                                      *)

\* An order document:
\*   kind        "text", "empty" (no page has text) or "corrupt" (pdfplumber
\*               raises)
\*   number      group 1 of TRN-(\d{4}\s?\d{2}), as its pieces around the blank
\*   date        group 1 of Datum:\s*(\d{2}\.\d{2}\.\d{4})
\*   vehicle     group 1 of LKW-Kennzeichen:\s*([A-Z\s\-]+\d+)
\*   km          groups 1, 2 of //(\d+)\s*LEERKM\s*//(\d+)\s*LAST\s*KM
\*   percent     group 1 of //\s*(\d+)%
\*   price       the two amounts written before "EUR" after "Frachtpreis:" and
\*               "Maut:", as texts over digits, ',' and '.'
\*   ladestellen the lines of the Ladestellen section that match the address
\*               pattern, each [company, city]
\*   empfaenger  the same for the Empfaenger section
\*   leer_in     group 1 of LEER IN\s+([A-Z\-]+) in the full text
\*   instr       group 1 of the same pattern inside the LADEINSTRUKTIONEN block
\* every capture is <<>> (no match) or <<group>>.

\* full_address = f"{company}, {street}, D {plz} {city}".strip()
full_address(line) == [text |-> line.company, city |-> line.city]

\* the loop over the lines of the Ladestellen section
loading_section(doc) ==
    [i \in 1..Len(doc.ladestellen) |-> full_address(doc.ladestellen[i])]

\* the loop over the lines of the Empfaenger section, with its filter on the
\* company
unloading_section(doc) ==
    LET kept == SelectSeq(doc.empfaenger,
                          LAMBDA l : /\ ~Contains(l.company, "Buchungsnr")
                                     /\ ~Contains(l.company, "zeiten"))
    IN  [i \in 1..Len(kept) |-> full_address(kept[i])]

\* a bare city token used as an address by the fallbacks
token_address(token) == [text |-> token, city |-> ""]

\* ".*?(\d+[,\.]\d+)\s*EUR" on an amount: the lazy prefix gives up at the first
\* place from where digits, one separator and digits reach the "EUR", which is
\* the start of the digit run before the last separator of the amount
amount_tail(text) ==
    LET seps == {i \in 1..Len(text) : text[i] \in {",", "."}}
        last == CHOOSE i \in seps : \A j \in seps : j <= i
        runs_from == {j \in 1..(last - 1) :
                         \A k \in j..(last - 1) : text[k] \in Digits}
    IN  IF seps = {} THEN NoMatch
        ELSE IF last = Len(text) \/ runs_from = {} THEN NoMatch
        ELSE <<SubSeq(text, CHOOSE j \in runs_from : \A k \in runs_from : j <= k,
                      Len(text))>>

\* "EUR\s+(\d+[,\.]\d+)\s*EUR" on an amount: the group starts where the amount
\* starts, so the whole amount is digits, one separator, digits
amount_whole(text) ==
    LET seps == {i \in 1..Len(text) : text[i] \in {",", "."}}
    IN  IF Cardinality(seps) = 1 /\ 1 \notin seps /\ Len(text) \notin seps
        THEN <<text>> ELSE NoMatch

\* price_section: groups 1 and 2 of
\* Frachtpreis:.*?Maut:.*?(\d+[,\.]\d+)\s*EUR\s+(\d+[,\.]\d+)\s*EUR
price_section(doc) ==
    IF doc.price = NoMatch THEN NoMatch
    ELSE LET g1 == amount_tail(doc.price[1])
             g2 == amount_whole(doc.price[2])
         IN  IF g1 = NoMatch \/ g2 = NoMatch THEN NoMatch
             ELSE <<g1[1], g2[1]>>

\* mutant of fallback_leer_in: the marker's city replaces the loading list
\* whether or not the section filled it
fallback_leer_in_overwrite(doc, o) ==
    IF doc.leer_in # NoMatch
    THEN [o EXCEPT !.loading_points = <<token_address(doc.leer_in[1])>>]
    ELSE o

\* first fallback: LEER IN anywhere in the text, only into an empty list
fallback_leer_in(doc, o) ==
    IF o.loading_points = <<>> /\ doc.leer_in # NoMatch
    THEN [o EXCEPT !.loading_points = <<token_address(doc.leer_in[1])>>]
    ELSE o

\* second fallback: LEER IN inside the loading instructions
fallback_instruction(doc, o) ==
    IF (o.loading_points = <<>> \/ o.unloading_points = <<>>)
       /\ doc.instr # NoMatch /\ o.loading_points = <<>>
    THEN [o EXCEPT !.loading_points = <<token_address(doc.instr[1])>>]
    ELSE o

\* match.group(1).replace(' ', '') of the order number pattern
order_number_of(doc) == Concat(SelectSeq(doc.number[1], LAMBDA c : c # " "))

\* the assignments of parse_transport_order to the order constructed with
\* empty arguments, number being the order number it found
order_from_text(doc, number) ==
      LET o0 == TransportOrder("", <<>>, "", <<>>)
          o1 == [o0 EXCEPT !.order_number = number]
          o2 == IF doc.date # NoMatch
                THEN [o1 EXCEPT !.date = doc.date[1]] ELSE o1
          o3 == IF doc.vehicle # NoMatch
                THEN [o2 EXCEPT !.vehicle = doc.vehicle[1]] ELSE o2
          o4 == IF doc.km # NoMatch
                THEN [o3 EXCEPT !.empty_km = DigitsVal(doc.km[1]),
                                !.loaded_km = DigitsVal(doc.km[2])]
                ELSE o3
          o5 == IF doc.percent # NoMatch
                THEN [o4 EXCEPT !.payment_percent = DigitsVal(doc.percent[1])]
                ELSE o4
          o6 == IF price_section(doc) # NoMatch
                THEN [o5 EXCEPT
                        !.planned_freight =
                            parse_german_number(price_section(doc)[1]),
                        !.planned_maut =
                            parse_german_number(price_section(doc)[2])]
                ELSE o5
          o7 == [o6 EXCEPT !.loading_points = loading_section(doc),
                           !.unloading_points = unloading_section(doc)]
      IN  fallback_instruction(doc, fallback_leer_in(doc, o7))

\* mutant of parse_transport_order: a text without an order number still
\* yields an order, its number ""
parse_transport_order_unnumbered(doc) ==
    IF doc.kind # "text" THEN None
    ELSE Some(order_from_text(doc, IF doc.number = NoMatch THEN ""
                                   ELSE order_number_of(doc)))

\* None for an empty text, a missing order number or an exception
parse_transport_order(doc) ==
    IF doc.kind # "text" THEN None
    ELSE IF doc.number = NoMatch THEN None
    ELSE Some(order_from_text(doc, order_number_of(doc)))

\* A credit-note document:
\*   kind      as for an order document
\*   number    group 1 of Nr\.:\s*(\d+)
\*   date      group 1 of vom:\s*(\d{2}\.\d{2}\.\d{4})
\*   blocks    the "Transp.A." blocks of the detail pages in text order, each
\*             [transport_order, date, vehicle, freight, maut, total]: what
\*             the part of detail_pattern for that field finds in the block,
\*             <<>> when nothing in the block matches it, the amounts as texts

\* what detail_pattern scans: per block its "Transp.A." header with the two
\* line breaks, then each part of the pattern the block has text for.
\* (\d{6})\s+(\d{2}\.\d{2}\.\d{4}) is one part: number and date adjacent.
block_text(b) ==
    LET part(name, present, groups) ==
            IF present THEN <<[part |-> name, groups |-> groups]>> ELSE <<>>
    IN  <<[part |-> "head", groups |-> <<>>]>>
        \o part("order", b.transport_order # <<>> /\ b.date # <<>>,
                b.transport_order \o b.date)
        \o part("vehicle", b.vehicle # <<>>, b.vehicle)
        \o part("fracht", b.freight # <<>>, b.freight)
        \o part("maut", b.maut # <<>>, b.maut)
        \o part("summe", b.total # <<>>, b.total)

RECURSIVE detail_text(_)
detail_text(blocks) ==
    IF blocks = <<>> THEN <<>>
    ELSE block_text(Head(blocks)) \o detail_text(Tail(blocks))

\* ".*?" followed by a part of the pattern, under re.DOTALL: the first place
\* at or after position from where that part matches, 0 when there is none
first_part(text, name, from) ==
    LET at == {i \in from..Len(text) : text[i].part = name}
    IN  IF from = 0 \/ at = {} THEN 0
        ELSE CHOOSE i \in at : \A j \in at : i <= j

next_part(text, name, prev) ==
    IF prev = 0 THEN 0 ELSE first_part(text, name, prev + 1)

\* the match of detail_pattern that starts at header h: <<>> or the groups
\* and the position where the match ends
match_at(text, h) ==
    LET o == next_part(text, "order", h)
        v == next_part(text, "vehicle", o)
        f == next_part(text, "fracht", v)
        m == next_part(text, "maut", f)
        t == next_part(text, "summe", m)
    IN  IF t = 0 THEN <<>>
        ELSE <<[groups |-> [transport_order |-> text[o].groups[1],
                            date |-> text[o].groups[2],
                            vehicle |-> text[v].groups[1],
                            freight |-> text[f].groups[1],
                            maut |-> text[m].groups[1],
                            total |-> text[t].groups[1]],
                end |-> t]>>

\* re.finditer(detail_pattern, full_text, re.DOTALL) from position from:
\* the leftmost match, then the matches after its end
RECURSIVE finditer(_, _)
finditer(text, from) ==
    LET h == first_part(text, "head", from)
    IN  IF h = 0 THEN <<>>
        ELSE LET found == match_at(text, h)
             IN  IF found = <<>> THEN finditer(text, h + 1)
                 ELSE <<found[1].groups>> \o finditer(text, found[1].end + 1)

GutschriftDetail(m) ==
    [transport_order |-> m.transport_order, date |-> m.date,
     vehicle |-> m.vehicle,
     freight |-> parse_german_number(m.freight),
     maut |-> parse_german_number(m.maut),
     total |-> parse_german_number(m.total)]

\* "for match in re.finditer(...)": one GutschriftDetail per match
parse_details(doc) ==
    LET found == finditer(detail_text(doc.blocks), 1)
    IN  [i \in 1..Len(found) |-> GutschriftDetail(found[i])]

\* mutant of parse_gutschrift: a note without a number is kept, its number ""
parse_gutschrift_unnumbered(doc) ==
    IF doc.kind # "text" THEN None
    ELSE Some([number |-> IF doc.number # NoMatch THEN doc.number[1] ELSE "",
               date |-> IF doc.date # NoMatch THEN doc.date[1] ELSE <<>>,
               details |-> parse_details(doc)])

parse_gutschrift(doc) ==
    IF doc.kind # "text" THEN None
    ELSE IF doc.number = NoMatch THEN None
    ELSE Some([number |-> doc.number[1],
               date |-> IF doc.date # NoMatch THEN doc.date[1] ELSE <<>>,
               details |-> parse_details(doc)])

-----------------------------------------------------------------------------
(* FinalDocumentProcessor.match_documents                                  *)

\* mutant of index_put: a key already in the index keeps its first entry
index_put_first(index, gs, detail) ==
    index @@ (detail.transport_order :> [gutschrift |-> gs, detail |-> detail])

\* detail_index[detail.transport_order] = {'gutschrift': gs, 'detail': detail}
index_put(index, gs, detail) ==
    (detail.transport_order :> [gutschrift |-> gs, detail |-> detail]) @@ index

RECURSIVE index_details(_, _, _)
\* for detail in gs.details
index_details(index, gs, details) ==
    IF details = <<>> THEN index
    ELSE index_details(index_put(index, gs, Head(details)), gs, Tail(details))

RECURSIVE index_notes(_, _)
\* for gs in self.gutschrifts
index_notes(index, notes) ==
    IF notes = <<>> THEN index
    ELSE index_notes(index_details(index, Head(notes), Head(notes).details),
                     Tail(notes))

detail_index(notes) == index_notes(<<>>, notes)

\* mutant of scaled_amount: the payment percent is not applied
scaled_amount_full(total, percent) == total

\* detail.total * (order.payment_percent / 100), or detail.total at 100 percent
scaled_amount(total, percent) ==
    IF percent # 100 THEN (total * percent) \div 100 ELSE total

\* mutant of match_order: the credited amount is added to the stored amount
match_order_accumulate(o, index) ==
    IF o.order_number \in DOMAIN index
    THEN LET info == index[o.order_number]
         IN  [o EXCEPT !.gutschrift_number = info.gutschrift.number,
                       !.gutschrift_date = info.gutschrift.date,
                       !.gutschrift_freight = info.detail.freight,
                       !.gutschrift_maut = info.detail.maut,
                       !.gutschrift_amount = o.gutschrift_amount +
                           (info.detail.total * o.payment_percent) \div 100]
    ELSE o

\* mutant of match_order: the order's date is overwritten with the item's date
match_order_backfill(o, index) ==
    IF o.order_number \in DOMAIN index
    THEN LET info == index[o.order_number]
         IN  [o EXCEPT !.gutschrift_number = info.gutschrift.number,
                       !.gutschrift_date = info.gutschrift.date,
                       !.gutschrift_freight = info.detail.freight,
                       !.gutschrift_maut = info.detail.maut,
                       !.gutschrift_amount =
                           (info.detail.total * o.payment_percent) \div 100,
                       !.date = info.detail.date]
    ELSE o

\* the body of "for order in self.transport_orders"
match_order(o, index) ==
    IF o.order_number \in DOMAIN index
    THEN LET info == index[o.order_number]
         IN  [o EXCEPT !.gutschrift_number = info.gutschrift.number,
                       !.gutschrift_date = info.gutschrift.date,
                       !.gutschrift_freight = info.detail.freight,
                       !.gutschrift_maut = info.detail.maut,
                       !.gutschrift_amount =
                           scaled_amount(info.detail.total, o.payment_percent)]
    ELSE o

match_all(orders, notes) ==
    LET index == detail_index(notes)
    IN  [i \in 1..Len(orders) |-> match_order(orders[i], index)]

-----------------------------------------------------------------------------
(* FinalDocumentProcessor.generate_report                                  *)

\* f"{x:.2f} €": the amount in cents, rounded half to even from 1/10000
Money(x) ==
    LET q == x \div 100
        r == x % 100
    IN  <<IF r > 50 \/ (r = 50 /\ q % 2 = 1) THEN q + 1 ELSE q>>

\* f"{x:.2f} €" if x else ""
MoneyOrBlank(x) == IF x # 0 THEN Money(x) ELSE <<>>

\* order.gutschrift_amount - order.planned_total if order.gutschrift_amount else 0
price_difference(o) ==
    IF o.gutschrift_amount # 0 THEN o.gutschrift_amount - o.planned_total ELSE 0

report_row(o) ==
    [Datum |-> o.date,
     Tournummer |-> o.order_number,
     Tour |-> format_tour(o),
     Ladestellen |-> o.loading_points,
     Entladestellen |-> o.unloading_points,
     Auftrag_km |-> o.total_km,
     GPS_km |-> o.gps_km,
     Maut_Auftrag |-> Money(o.planned_maut),
     Maut_Gefahren |-> MoneyOrBlank(o.gutschrift_maut),
     Preis_Plan |-> Money(o.planned_freight),
     Preis_Tatsaechlich |-> Money(o.planned_total),
     Gutschrift |-> MoneyOrBlank(o.gutschrift_amount),
     Kosten_Auftrag |-> Money(o.planned_total),
     Kosten_Gefahren |-> MoneyOrBlank(o.gutschrift_amount),
     Differenz_km |-> o.gps_km - o.total_km,
     Differenz_Preis |-> MoneyOrBlank(price_difference(o)),
     Bearbeiter |-> "EV",
     GS_Datum |-> IF o.gutschrift_number # ""
                  THEN <<o.gutschrift_number, o.gutschrift_date>> ELSE <<>>,
     LKW |-> o.vehicle,
     Prozent |-> <<o.payment_percent>>]

DaysIn(m, y) ==
    IF m \in {4, 6, 9, 11} THEN 30
    ELSE IF m # 2 THEN 31
    ELSE IF y % 4 = 0 /\ (y % 100 # 0 \/ y % 400 = 0) THEN 29 ELSE 28

\* pd.to_datetime(text, format='%d.%m.%Y', errors='coerce'): <<>> is NaT,
\* <<k>> a timestamp, k increasing with the date
to_datetime(date) ==
    IF date = <<>> THEN <<>>
    ELSE LET d == date[1]
             m == date[2]
             y == date[3]
         IN  IF y \in 1678..2261 /\ m \in 1..12 /\ d \in 1..DaysIn(m, y)
             THEN <<(y * 12 + (m - 1)) * 31 + (d - 1)>>
             ELSE <<>>

\* the orderings of a set of row positions
RECURSIVE Orderings(_)
Orderings(S) ==
    IF S = {} THEN {<<>>}
    ELSE UNION {{<<x>> \o p : p \in Orderings(S \ {x})} : x \in S}

\* the row orders of a frame of n rows: p[k] is the position of the row
\* that comes k-th
RowOrders(n) == Orderings(1..n)

\* df.sort_values('Datum_sort'): kind defaults to 'quicksort', which is not a
\* stable sort, and na_position to 'last'.  The result takes row k from
\* position p[k]: the timestamps ascending, rows with equal timestamps in any
\* order, then the NaT rows in their original order.
sort_values(keys) ==
    LET n == Len(keys)
        valid == Cardinality({i \in 1..n : keys[i] # <<>>})
    IN  {p \in RowOrders(n) :
            /\ \A k \in 1..valid : keys[p[k]] # <<>>
            /\ \A k, l \in 1..valid : k < l => keys[p[k]][1] <= keys[p[l]][1]
            /\ \A k, l \in (valid + 1)..n : k < l => p[k] < p[l]}

\* mutant of total_row: the descriptive cells are copied from the last order
total_row_last(orders) ==
    LET last == report_row(orders[Len(orders)])
    IN  [last EXCEPT !.Datum = <<"GESAMT">>, !.Bearbeiter = ""]

\* the GESAMT row
total_row(orders) ==
    LET col(f(_)) == SumSeq([i \in 1..Len(orders) |-> f(orders[i])])
        total_km(o) == o.total_km
        gps_km(o) == o.gps_km
        planned_maut(o) == o.planned_maut
        gutschrift_maut(o) == o.gutschrift_maut
        planned_freight(o) == o.planned_freight
        planned_total(o) == o.planned_total
        gutschrift_amount(o) == o.gutschrift_amount
        km_diff(o) == o.gps_km - o.total_km
        price_diff(o) == IF o.gutschrift_amount # 0
                         THEN o.gutschrift_amount - o.planned_total ELSE 0
    IN  [Datum |-> <<"GESAMT">>,
         Tournummer |-> "",
         Tour |-> "",
         Ladestellen |-> <<>>,
         Entladestellen |-> <<>>,
         Auftrag_km |-> col(total_km),
         GPS_km |-> col(gps_km),
         Maut_Auftrag |-> Money(col(planned_maut)),
         Maut_Gefahren |-> Money(col(gutschrift_maut)),
         Preis_Plan |-> Money(col(planned_freight)),
         Preis_Tatsaechlich |-> Money(col(planned_total)),
         Gutschrift |-> Money(col(gutschrift_amount)),
         Kosten_Auftrag |-> Money(col(planned_total)),
         Kosten_Gefahren |-> Money(col(gutschrift_amount)),
         Differenz_km |-> col(km_diff),
         Differenz_Preis |-> Money(col(price_diff)),
         Bearbeiter |-> "",
         GS_Datum |-> <<>>,
         LKW |-> "",
         Prozent |-> <<>>]

\* the rows of "data" in the order p that sort_values chose
report_frame(data, p) == [k \in 1..Len(data) |-> data[p[k]]]

\* mutant of aggregate: the GESAMT row is appended to an empty report too
aggregate_always(orders) == <<total_row(orders)>>

\* "if self.transport_orders:" the rows pd.concat appends to the frame
aggregate(orders) == IF orders # <<>> THEN <<total_row(orders)>> ELSE <<>>

-----------------------------------------------------------------------------
(* FinalDocumentProcessor.export_to_excel_custom: the highlighting of the   *)
(* Hauptbericht sheet.                                                      *)

\* row_data = df.iloc[i]; row_data[col] for a column of Python ints: the frame
\* stores the column as int64 and the row hands its cell out as a
\* numpy.int64 scalar
iloc_int(v) == [type |-> "numpy.int64", value |-> v]

\* isinstance(x, (int, float)): numpy.float64 derives from float, numpy.int64
\* does not derive from int
isinstance_int_float(x) == x.type \in {"int", "float", "numpy.float64"}

\* abs(gps_km - auftrag_km) / auftrag_km > 0.1, for integers: the quotient
\* is rounded to the nearest double, which is above the double 0.1 exactly
\* when the exact quotient is above one tenth
km_over_tenth(auftrag_km, gps_km) ==
    LET d == gps_km - auftrag_km
    IN  10 * (IF d < 0 THEN -d ELSE d) > auftrag_km

\* the four checks of one row, each in its own if / try block
row_highlights(row) ==
    LET auftrag_km == iloc_int(row.Auftrag_km)
        gps_km == iloc_int(row.GPS_km)
    IN  [unmatched |-> row.GS_Datum = <<>>,
         large_km_deviation |->
             /\ isinstance_int_float(auftrag_km)
             /\ isinstance_int_float(gps_km)
             /\ auftrag_km.value > 0
             /\ km_over_tenth(auftrag_km.value, gps_km.value),
         partial_payment |-> row.Prozent # <<>> /\ row.Prozent[1] < 100,
         significant_negative_variance |->
             row.Differenz_Preis # <<>> /\ row.Differenz_Preis[1] < -5000]

\* "if df is not None and not df.empty": the loop over every row of the sheet
highlights(frame) == [k \in 1..Len(frame) |-> row_highlights(frame[k])]

-----------------------------------------------------------------------------
(* Input documents of the model.  A file name is a number, sorted() is the  *)
(* ascending order of the numbers, and OrderPdfs[name], GsPdfs[name] is the *)
(* document the file holds.                                                 *)

Amount800 == <<"8", "0", "0", ",", "0", "0">>
Amount45 == <<"4", "5", ",", "5", "0">>
Amount1234 == <<"1", ".", "2", "3", "4", ",", "5", "6">>
Amount1045 == <<"1", ".", "0", "4", "5", ",", "5", "0">>
Amount800Dot == <<"8", "0", "0", ".", "0", "0">>

OrderDoc(number, date, percent, lade, empf) ==
    [kind |-> "text", number |-> number, date |-> date,
     vehicle |-> <<"SB-TT 123">>,
     km |-> << <<"5", "0">>, <<"4", "5", "0">> >>,
     percent |-> percent,
     price |-> <<Amount800, Amount45>>,
     ladestellen |-> lade, empfaenger |-> empf,
     leer_in |-> NoMatch, instr |-> NoMatch]

LineEssen == [company |-> "NAGEL LOGISTIK", city |-> "ESSEN"]
LineBochum == [company |-> "EDEKA ZENTRALE", city |-> "BOCHUM"]

Number1 == << <<"2501", " ", "01">> >>
Number2 == << <<"250102">> >>
Percent50 == << <<"5", "0">> >>

StdDoc(number, date, percent) ==
    OrderDoc(number, date, percent, <<LineEssen>>, <<LineBochum>>)

OrderPdfs ==
    << \* 1..3: two order numbers, full and half payment; 4: no order number
       StdDoc(Number1, << <<15, 1, 2025>> >>, NoMatch),
       StdDoc(Number1, << <<16, 1, 2025>> >>, Percent50),
       StdDoc(Number2, << <<17, 1, 2025>> >>, NoMatch),
       StdDoc(NoMatch, << <<18, 1, 2025>> >>, NoMatch),
       \* 5..9: dates out of file-name order, equal, invalid and missing
       StdDoc(Number1, << <<2, 2, 2025>> >>, NoMatch),
       StdDoc(Number2, << <<15, 1, 2025>> >>, NoMatch),
       StdDoc(Number1, << <<15, 1, 2025>> >>, Percent50),
       StdDoc(Number2, << <<31, 2, 2025>> >>, NoMatch),
       StdDoc(Number1, NoMatch, NoMatch),
       \* 10: no address in either section
       OrderDoc(Number2, << <<20, 1, 2025>> >>, NoMatch, <<>>, <<>>),
       \* 11: loading and unloading in the same city
       OrderDoc(Number2, << <<21, 1, 2025>> >>, NoMatch, <<LineEssen>>,
                <<[company |-> "EDEKA ZENTRALE", city |-> "ESSEN"]>>),
       \* 12: no page has text; 13: pdfplumber raises
       [StdDoc(Number1, << <<22, 1, 2025>> >>, NoMatch) EXCEPT !.kind = "empty"],
       [StdDoc(Number1, << <<23, 1, 2025>> >>, NoMatch) EXCEPT !.kind = "corrupt"],
       \* 14, 15: "// 0%" and "//150%"
       StdDoc(Number1, << <<24, 1, 2025>> >>, << <<"0">> >>),
       StdDoc(Number2, << <<25, 1, 2025>> >>, << <<"1", "5", "0">> >>),
       \* 16: "1.234,56 EUR 45,50 EUR"; 17: "800.00 EUR 45,50 EUR";
       \* 18: "800,00 EUR 1.045,50 EUR"
       [StdDoc(Number1, << <<26, 1, 2025>> >>, NoMatch)
           EXCEPT !.price = <<Amount1234, Amount45>>],
       [StdDoc(Number2, << <<26, 1, 2025>> >>, NoMatch)
           EXCEPT !.price = <<Amount800Dot, Amount45>>],
       [StdDoc(Number1, << <<27, 1, 2025>> >>, NoMatch)
           EXCEPT !.price = <<Amount800, Amount1045>>],
       \* 19: both sections filled, "LEER IN DORTMUND" in the instructions
       [StdDoc(Number1, << <<28, 1, 2025>> >>, NoMatch)
           EXCEPT !.leer_in = <<"DORTMUND">>, !.instr = <<"DORTMUND">>],
       \* 20: no address at all, "LEER IN DORTMUND" before the instructions and
       \* "LEER IN KOELN" inside them
       [OrderDoc(Number1, << <<29, 1, 2025>> >>, NoMatch, <<>>, <<>>)
           EXCEPT !.leer_in = <<"DORTMUND">>, !.instr = <<"KOELN">>],
       \* 21: no unloading address, "LEER IN DORTMUND" in the instructions
       [OrderDoc(Number2, << <<29, 1, 2025>> >>, NoMatch, <<LineEssen>>, <<>>)
           EXCEPT !.leer_in = <<"DORTMUND">>, !.instr = <<"DORTMUND">>] >>

MatchOrderFiles == 1..3
ReportOrderFiles == 4..9
RouteOrderFiles == 10..11
ParseOrderFiles == {4} \cup (12..15)
FieldOrderFiles == 16..21
ListingOrderFiles == 1..3

order_pdf(name) == OrderPdfs[name]

\* a block with text for every part of detail_pattern
Item(order, freight, maut, total) ==
    [transport_order |-> <<order>>, date |-> << <<15, 1, 2025>> >>,
     vehicle |-> <<"SB-TT 123">>, freight |-> <<freight>>, maut |-> <<maut>>,
     total |-> <<total>>]

Zero == <<"0", ",", "0", "0">>

GsDoc(number, date, blocks) ==
    [kind |-> "text", number |-> number, date |-> date, blocks |-> blocks]

GsPdfs ==
    << GsDoc(<<"4711">>, << <<20, 1, 2025>> >>,
             << Item("250101", <<"8", "0", "0", ",", "0", "0">>,
                     <<"4", "5", ",", "5", "0">>,
                     <<"8", "4", "5", ",", "5", "0">>) >>),
       GsDoc(<<"4712">>, << <<27, 1, 2025>> >>,
             << Item("250101", <<"1", ".", "0", "0", "0", ",", "0", "0">>, Zero,
                     <<"1", ".", "0", "0", "0", ",", "0", "0">>),
                Item("250102", <<"5", "0", "0", ",", "0", "0">>,
                     <<"2", "0", ",", "0", "0">>,
                     <<"5", "2", "0", ",", "0", "0">>) >>),
       GsDoc(<<"4714">>, << <<10, 2, 2025>> >>,
             << Item("250101", <<"7", "0", "0", ",", "0", "0">>,
                     <<"4", "5", ",", "5", "0">>,
                     <<"7", "4", "5", ",", "5", "0">>),
                Item("250101", Zero, Zero, Zero) >>),
       GsDoc(NoMatch, << <<20, 1, 2025>> >>,
             << Item("250102", <<"5", "0", "0", ",", "0", "0">>,
                     <<"2", "0", ",", "0", "0">>,
                     <<"5", "2", "0", ",", "0", "0">>) >>),
       \* 5: 499,96 EUR for 250101
       GsDoc(<<"4720">>, << <<12, 2, 2025>> >>,
             << Item("250101", <<"4", "5", "4", ",", "4", "6">>,
                     <<"4", "5", ",", "5", "0">>,
                     <<"4", "9", "9", ",", "9", "6">>) >>),
       \* 6: no page has text; 7: pdfplumber raises
       [GsDoc(<<"4721">>, NoMatch, <<>>) EXCEPT !.kind = "empty"],
       [GsDoc(<<"4722">>, NoMatch, <<>>) EXCEPT !.kind = "corrupt"],
       \* 8: a block without its "Summe" line, then a complete block
       GsDoc(<<"4730">>, << <<14, 2, 2025>> >>,
             << [Item("250101", <<"7", "0", "0", ",", "0", "0">>,
                      <<"4", "5", ",", "5", "0">>, Zero) EXCEPT !.total = <<>>],
                Item("250102", <<"5", "0", "0", ",", "0", "0">>,
                     <<"2", "0", ",", "0", "0">>,
                     <<"5", "2", "0", ",", "0", "0">>) >>),
       \* 9: a complete block, then a block without its "Summe" line
       GsDoc(<<"4731">>, << <<15, 2, 2025>> >>,
             << Item("250101", <<"8", "0", "0", ",", "0", "0">>,
                     <<"4", "5", ",", "5", "0">>,
                     <<"8", "4", "5", ",", "5", "0">>),
                [Item("250102", <<"5", "0", "0", ",", "0", "0">>,
                      <<"2", "0", ",", "0", "0">>, Zero) EXCEPT !.total = <<>>] >>),
       \* 10: a block without an order number line, then a complete block
       GsDoc(<<"4732">>, << <<16, 2, 2025>> >>,
             << [Item("250101", <<"7", "0", "0", ",", "0", "0">>,
                      <<"4", "5", ",", "5", "0">>,
                      <<"7", "4", "5", ",", "5", "0">>)
                   EXCEPT !.transport_order = <<>>],
                Item("250102", <<"5", "0", "0", ",", "0", "0">>,
                     <<"2", "0", ",", "0", "0">>,
                     <<"5", "2", "0", ",", "0", "0">>) >>),
       \* 11: freight "1,2,3", toll "." and total "845,50" for 250101
       GsDoc(<<"4740">>, << <<17, 2, 2025>> >>,
             << Item("250101", <<"1", ",", "2", ",", "3">>, <<".">>,
                     <<"8", "4", "5", ",", "5", "0">>) >>) >>

MatchGsFiles == 1..4
FlagGsFiles == {1, 2, 5}
ParseGsFiles == {4} \cup (6..10)
FieldGsFiles == {11}
ListingGsFiles == 1..2

gutschrift_pdf(name) == GsPdfs[name]

\* constructor calls: TransportOrder(order_number, date, vehicle, **kw)
NewOrder(number, date, kw) ==
    [order_number |-> number, date |-> date, vehicle |-> "SB-TT 123", kw |-> kw]

\* planned 900.00 EUR at half payment
NewOrder900 ==
    NewOrder("250101", <<15, 1, 2025>>,
             [empty_km |-> 50, loaded_km |-> 450, planned_freight |-> 9000000,
              payment_percent |-> 50])

\* addresses with a table city, a title-cased city, a company label, no label
RouteAddresses ==
    {[text |-> "NAGEL LOGISTIK", city |-> "ESSEN-KETTWIG"],
     [text |-> "LACTALIS", city |-> "HAMBURG"],
     [text |-> "EDEKA ZENTRALE", city |-> ""],
     [text |-> "SPEDITION MEIER", city |-> ""]}

\* orders constructed with every pair of address lists of at most MaxPoints
\* and a tour text
RouteNewOrders ==
    {NewOrder("250101", <<15, 1, 2025>>,
              [loading_points |-> l, unloading_points |-> u, tour |-> "Tour 7"]) :
        l \in SeqsUpTo(RouteAddresses, MaxPoints),
        u \in SeqsUpTo(RouteAddresses, MaxPoints)}

\* GPS kilometres supplied, 100 km above the planned 500
NewOrderGps ==
    NewOrder("250102", <<1, 3, 2025>>,
             [empty_km |-> 50, loaded_km |-> 450, gps_km |-> 600,
              planned_freight |-> 8000000, planned_maut |-> 455000])

\* planned 100.00 EUR at a tenth of the credited total
NewOrderRound ==
    NewOrder("250101", <<15, 1, 2025>>,
             [empty_km |-> 50, loaded_km |-> 450, planned_freight |-> 1000000,
              payment_percent |-> 10])

\* planned 845.50 EUR, paid in full
NewOrderPlain ==
    NewOrder("250101", <<15, 1, 2025>>,
             [empty_km |-> 50, loaded_km |-> 450, planned_freight |-> 8000000,
              planned_maut |-> 455000])

FlagNewOrders == {NewOrderGps, NewOrder900, NewOrderRound, NewOrderPlain}

-----------------------------------------------------------------------------
(* The state machine.                                                       *)

\* the requests the service handles at the same time
Requests == 1..MaxRequests

\* the module's processing_status
idle_status ==
    [status |-> "idle", progress |-> 0, message |-> "", details |-> <<>>]

\* FinalDocumentProcessor(): both lists empty
new_processor == [transport_orders |-> <<>>, gutschrifts |-> <<>>]

\* a request that posts no file
NoUpload == [orders |-> <<>>, gutschrifts |-> <<>>]

\* the service as imported, before any request, each request posting one of
\* the uploads ups
InitWeb(ups) ==
    /\ processing_status = idle_status
    /\ bound_by = 0
    /\ uploads \in [Requests -> ups]
    /\ pc = [r \in Requests |-> 0]
    /\ processors = [r \in Requests |-> new_processor]
    /\ responses = [r \in Requests |-> None]

InitWith(orders, notes, news) ==
    /\ InitWeb({NoUpload})
    /\ order_files \in orders
    /\ gs_files \in notes
    /\ new_orders \in news
    /\ transport_orders = <<>>
    /\ gutschrifts = <<>>
    /\ oi = 0
    /\ gi = 0
    /\ df = <<>>
    /\ indexer = <<>>
    /\ fills = <<>>
    /\ op = "init"
    /\ runs = 0

\* the matching scenarios
Init ==
    InitWith(SortedSeqs(MatchOrderFiles, MaxOrderFiles),
             SortedSeqs(MatchGsFiles, MaxGsFiles),
             SeqsUpTo({NewOrder900}, MaxNewOrders))

\* the caller constructs an order and appends it to transport_orders
AddOrder ==
    /\ new_orders # <<>>
    /\ oi = 0 /\ gi = 0 /\ runs = 0
    /\ LET c == Head(new_orders)
       IN  transport_orders' =
               Append(transport_orders,
                      TransportOrder(c.order_number, c.date, c.vehicle, c.kw))
    /\ new_orders' = Tail(new_orders)
    /\ op' = "new"
    /\ UNCHANGED <<order_files, gs_files, gutschrifts, oi, gi, df, indexer,
                   fills, runs>>
    /\ UNCHANGED web

\* mutant of sorted: the files in the order the directory lists them
unsorted(files) == files

\* sorted(path.glob("*.pdf")): the listed names, which are distinct, ascending
sorted(files) ==
    [i \in 1..Len(files) |->
        CHOOSE x \in Range(files) :
            Cardinality({y \in Range(files) : y < x}) = i - 1]

\* load_documents, one iteration of "for pdf_file in sorted(orders_path...)"
LoadOrder ==
    /\ runs = 0
    /\ oi < Len(order_files)
    /\ LET order == parse_transport_order(order_pdf(sorted(order_files)[oi + 1]))
       IN  transport_orders' =
               IF order # None THEN Append(transport_orders, order[1])
               ELSE transport_orders
    /\ oi' = oi + 1
    /\ op' = "load"
    /\ UNCHANGED <<order_files, gs_files, new_orders, gutschrifts, gi, df,
                   indexer, fills, runs>>
    /\ UNCHANGED web

\* load_documents, one iteration of "for pdf_file in sorted(gutschrifts_path...)"
LoadGutschrift ==
    /\ runs = 0
    /\ oi = Len(order_files)
    /\ gi < Len(gs_files)
    /\ LET gutschrift == parse_gutschrift(gutschrift_pdf(sorted(gs_files)[gi + 1]))
       IN  gutschrifts' =
               IF gutschrift # None THEN Append(gutschrifts, gutschrift[1])
               ELSE gutschrifts
    /\ gi' = gi + 1
    /\ op' = "load"
    /\ UNCHANGED <<order_files, gs_files, new_orders, transport_orders, oi, df,
                   indexer, fills, runs>>
    /\ UNCHANGED web

\* mutant of Loaded: only the orders are waited for
LoadedOrdersOnly == oi = Len(order_files)

\* load_documents has returned: both loops have visited every file
Loaded == oi = Len(order_files) /\ gi = Len(gs_files)

match_documents ==
    /\ Loaded
    /\ runs < MaxRuns
    /\ op \notin {"report", "export"}
    /\ transport_orders' = match_all(transport_orders, gutschrifts)
    /\ runs' = runs + 1
    /\ op' = "match"
    /\ UNCHANGED <<order_files, gs_files, new_orders, gutschrifts, oi, gi, df,
                   indexer, fills>>
    /\ UNCHANGED web

generate_report ==
    /\ Loaded
    /\ runs >= 1
    /\ op # "export"
    /\ LET keys == [i \in 1..Len(transport_orders) |->
                       to_datetime(transport_orders[i].date)]
           data == [i \in 1..Len(transport_orders) |->
                       report_row(transport_orders[i])]
           total == aggregate(transport_orders)
       IN  \E p \in sort_values(keys) :
              /\ df' = report_frame(data, p) \o total
              /\ indexer' = p
    /\ op' = "report"
    /\ UNCHANGED <<order_files, gs_files, new_orders, transport_orders,
                   gutschrifts, oi, gi, fills, runs>>
    /\ UNCHANGED web

\* export_to_excel_custom(matched_df, ...), called on the frame generate_report
\* just returned; the last call of the pipeline
export_to_excel_custom ==
    /\ op = "report"
    /\ fills' = highlights(df)
    /\ op' = "export"
    /\ UNCHANGED <<order_files, gs_files, new_orders, transport_orders,
                   gutschrifts, oi, gi, df, indexer, runs>>
    /\ UNCHANGED web

Next ==
    \/ AddOrder
    \/ LoadOrder
    \/ LoadGutschrift
    \/ match_documents
    \/ generate_report
    \/ export_to_excel_custom

Spec == Init /\ [][Next]_vars

\* the report scenarios: order dates out of load order, equal, invalid,
\* missing, and a document without an order number
InitReport ==
    InitWith(SortedSeqs(ReportOrderFiles, MaxOrderFiles), {<<1>>},
             SeqsUpTo({NewOrderGps}, MaxNewOrders))

SpecReport == InitReport /\ [][Next]_vars

\* the route scenarios: one constructed order with its address lists, or one
\* parsed order
InitRoute ==
    \/ InitWith({<<>>}, {<<1>>}, {<<c>> : c \in RouteNewOrders})
    \/ InitWith({<<n>> : n \in RouteOrderFiles}, {<<1>>}, {<<>>})

SpecRoute == InitRoute /\ [][Next]_vars

\* the highlighting scenarios: a constructed order with planned amounts or
\* GPS kilometres next to the parsed ones
InitFlags ==
    InitWith(SortedSeqs(MatchOrderFiles, MaxOrderFiles),
             SortedSeqs(FlagGsFiles, MaxGsFiles),
             SeqsUpTo(FlagNewOrders, MaxNewOrders))

SpecFlags == InitFlags /\ [][Next]_vars

\* the parsing scenarios: documents without text, unreadable, without a
\* number, with an odd percent marker, with incomplete detail blocks
InitParse ==
    InitWith(SortedSeqs(ParseOrderFiles, MaxOrderFiles),
             SortedSeqs(ParseGsFiles, MaxGsFiles),
             SeqsUpTo({NewOrderPlain}, MaxNewOrders))

SpecParse == InitParse /\ [][Next]_vars

\* the field scenarios: amounts with a thousands separator, a decimal point,
\* several commas, no digits; address sections left empty next to "LEER IN"
InitFields ==
    InitWith(SortedSeqs(FieldOrderFiles, MaxOrderFiles),
             SortedSeqs(FieldGsFiles, MaxGsFiles),
             SeqsUpTo({NewOrderPlain}, MaxNewOrders))

SpecFields == InitFields /\ [][Next]_vars

\* the listings of up to n of the files S: distinct names in any order
Listings(S, n) ==
    {s \in SeqsUpTo(S, n) : \A i, j \in 1..Len(s) : i # j => s[i] # s[j]}

\* the listing scenarios: the matching documents, listed by the directory in
\* every order
InitListing ==
    InitWith(Listings(ListingOrderFiles, MaxOrderFiles),
             Listings(ListingGsFiles, MaxGsFiles),
             SeqsUpTo({NewOrder900}, MaxNewOrders))

SpecListing == InitListing /\ [][Next]_vars

-----------------------------------------------------------------------------
(* web_app/app.py: upload_files, one process per request in flight.  Every *)
(* statement that reads or binds the global name processing_status is a    *)
(* step of its own; pc is the line of the next such statement, 0 before    *)
(* the request arrives.  The processor of a request is local to it, so its *)
(* calls are taken with the statement before them.  Messages are denoted   *)
(* by the stage they announce; the clock of the output file name is left   *)
(* out.                                                                    *)

\* load_documents as a whole: the orders of the files that parse, in
\* sorted() order
loaded_orders(files) ==
    LET parsed == [i \in 1..Len(files) |->
                      parse_transport_order(order_pdf(sorted(files)[i]))]
        kept == SelectSeq(parsed, LAMBDA x : x # None)
    IN  [i \in 1..Len(kept) |-> kept[i][1]]

\* the same for the credit notes
loaded_gutschrifts(files) ==
    LET parsed == [i \in 1..Len(files) |->
                      parse_gutschrift(gutschrift_pdf(sorted(files)[i]))]
        kept == SelectSeq(parsed, LAMBDA x : x # None)
    IN  [i \in 1..Len(kept) |-> kept[i][1]]

\* the calls of upload_files on its processor
called(call, processor, u) ==
    CASE call = "load_documents" ->
             [transport_orders |-> loaded_orders(u.orders),
              gutschrifts |-> loaded_gutschrifts(u.gutschrifts)]
      [] call = "match_documents" ->
             [processor EXCEPT
                 !.transport_orders = match_all(@, processor.gutschrifts)]
      [] OTHER -> processor

\* stats = {...}, lines 126-134
request_stats(processor) ==
    LET orders == processor.transport_orders
        matched_count ==
            Cardinality({i \in 1..Len(orders) : orders[i].gutschrift_number # ""})
    IN  [orders_count |-> Len(orders),
         gutschrifts_count |-> Len(processor.gutschrifts),
         matched_count |-> matched_count,
         unmatched_count |-> Len(orders) - matched_count]

\* processing_status = {'status': 'processing', ...}
processing_dict(u) ==
    [status |-> "processing", progress |-> 10, message |-> "start",
     details |-> [orders_count |-> Len(u.orders),
                  gutschrifts_count |-> Len(u.gutschrifts)]]

\* processing_status = {'status': 'completed', ...}
completed_dict(stats) ==
    [status |-> "completed", progress |-> 100, message |-> "completed",
     details |-> [orders_count |-> stats.orders_count,
                  gutschrifts_count |-> stats.gutschrifts_count,
                  matched_count |-> stats.matched_count,
                  unmatched_count |-> stats.unmatched_count,
                  output_file |-> "transtar_web.xlsx",
                  statistics |-> stats]]

\* processing_status = {'status': 'error', ...}
error_dict ==
    [status |-> "error", progress |-> 0, message |-> "error",
     details |-> [error_type |-> "Exception", traceback |-> "traceback"]]

\* d[key] = value on a dict
setitem(d, key, value) ==
    [k \in (DOMAIN d) \cup {key} |-> IF k = key THEN value ELSE d[k]]

\* the statements of upload_files that write into the dict the global name
\* is bound to when they run: per line, the key, the value (for the two
\* counts, the list that is counted), the call on the processor that follows
\* and the line of the next statement on the global
Statements ==
    << [line |-> 93, key |-> "progress", value |-> 30, call |-> "", next |-> 94],
       [line |-> 94, key |-> "message", value |-> "parse", call |-> "",
        next |-> 108],
       [line |-> 108, key |-> "progress", value |-> 40, call |-> "",
        next |-> 109],
       [line |-> 109, key |-> "message", value |-> "load",
        call |-> "load_documents", next |-> 112],
       [line |-> 112, key |-> "parsed_orders", value |-> "transport_orders",
        call |-> "", next |-> 113],
       [line |-> 113, key |-> "parsed_gutschrifts", value |-> "gutschrifts",
        call |-> "", next |-> 116],
       [line |-> 116, key |-> "progress", value |-> 60, call |-> "",
        next |-> 117],
       [line |-> 117, key |-> "message", value |-> "match",
        call |-> "match_documents", next |-> 121],
       [line |-> 121, key |-> "progress", value |-> 80, call |-> "",
        next |-> 122],
       [line |-> 122, key |-> "message", value |-> "report", call |-> "",
        next |-> 137],
       [line |-> 137, key |-> "progress", value |-> 90, call |-> "",
        next |-> 138],
       [line |-> 138, key |-> "message", value |-> "excel", call |-> "",
        next |-> 146] >>

\* the lines of those statements
InPlace == {Statements[i].line : i \in 1..Len(Statements)}

\* the request arrives with its two file lists, which are saved (lines
\* 57-79); saving may raise
Receive(r) ==
    /\ pc[r] = 0
    /\ \/ pc' = [pc EXCEPT ![r] = 82]
       \/ pc' = [pc EXCEPT ![r] = 176]
    /\ UNCHANGED <<processing_status, bound_by, uploads, processors, responses>>
    /\ UNCHANGED library

\* line 82: the global name is bound to a new dict
Begin(r) ==
    /\ pc[r] = 82
    /\ processing_status' = processing_dict(uploads[r])
    /\ bound_by' = r
    /\ pc' = [pc EXCEPT ![r] = 93]
    /\ UNCHANGED <<uploads, processors, responses>>
    /\ UNCHANGED library

\* lines 93-138: processing_status[key] = value, or
\* processing_status['details'][key] = value, on whatever dict the global
\* name is bound to at that moment
Update(r) ==
    /\ pc[r] \in InPlace
    /\ LET st == Statements[CHOOSE i \in 1..Len(Statements) :
                                Statements[i].line = pc[r]]
       IN  /\ processing_status' =
                  IF st.key \in {"parsed_orders", "parsed_gutschrifts"}
                  THEN [processing_status EXCEPT
                           !.details =
                               setitem(@, st.key, Len(processors[r][st.value]))]
                  ELSE setitem(processing_status, st.key, st.value)
           /\ processors' =
                  [processors EXCEPT ![r] = called(st.call, @, uploads[r])]
           /\ pc' = [pc EXCEPT ![r] = st.next]
    /\ UNCHANGED <<bound_by, uploads, responses>>
    /\ UNCHANGED library

\* line 146: export_to_excel_custom writes the workbook, or raises
Export(r) ==
    /\ pc[r] = 146
    /\ \/ pc' = [pc EXCEPT ![r] = 149]
       \/ pc' = [pc EXCEPT ![r] = 176]
    /\ UNCHANGED <<processing_status, bound_by, uploads, processors, responses>>
    /\ UNCHANGED library

\* line 149: the global name is bound to the completed dict
Finish(r) ==
    /\ pc[r] = 149
    /\ processing_status' = completed_dict(request_stats(processors[r]))
    /\ bound_by' = r
    /\ pc' = [pc EXCEPT ![r] = 166]
    /\ UNCHANGED <<uploads, processors, responses>>
    /\ UNCHANGED library

\* lines 164-170: the temporary folder is removed, which may raise, then the
\* response is built, its 'stats' read from the global name
Respond(r) ==
    /\ pc[r] = 166
    /\ \/ /\ responses' = [responses EXCEPT
                              ![r] = Some([success |-> TRUE,
                                           stats |-> processing_status.details])]
          /\ pc' = [pc EXCEPT ![r] = 170]
       \/ /\ pc' = [pc EXCEPT ![r] = 176]
          /\ UNCHANGED responses
    /\ UNCHANGED <<processing_status, bound_by, uploads, processors>>
    /\ UNCHANGED library

\* lines 172-189: the handler of an exception binds the error dict and
\* answers with status 500
Except(r) ==
    /\ pc[r] = 176
    /\ processing_status' = error_dict
    /\ bound_by' = r
    /\ responses' = [responses EXCEPT ![r] = Some([success |-> FALSE])]
    /\ pc' = [pc EXCEPT ![r] = 189]
    /\ UNCHANGED <<uploads, processors>>
    /\ UNCHANGED library

NextServer ==
    \E r \in Requests :
        \/ Receive(r)
        \/ Begin(r)
        \/ Update(r)
        \/ Export(r)
        \/ Finish(r)
        \/ Respond(r)
        \/ Except(r)

\* the uploads of the requests: an order with its credit note; two orders
\* without a credit note
Uploads ==
    {[orders |-> <<1>>, gutschrifts |-> <<1>>],
     [orders |-> <<3, 1>>, gutschrifts |-> <<>>]}

InitServer ==
    /\ InitWeb(Uploads)
    /\ order_files = <<>>
    /\ gs_files = <<>>
    /\ new_orders = <<>>
    /\ transport_orders = <<>>
    /\ gutschrifts = <<>>
    /\ oi = 0
    /\ gi = 0
    /\ df = <<>>
    /\ indexer = <<>>
    /\ fills = <<>>
    /\ op = "init"
    /\ runs = 0

SpecServer == InitServer /\ [][NextServer]_vars

-----------------------------------------------------------------------------
(* Properties.                                                              *)

Orders == 1..Len(transport_orders)

\* the positions <<g, d>> of the line items that carry an order number
Carriers(number) ==
    UNION {{<<g, d>> : d \in {e \in 1..Len(gutschrifts[g].details) :
                              gutschrifts[g].details[e].transport_order = number}} :
           g \in 1..Len(gutschrifts)}

\* position a is met before position b when the notes are scanned in load
\* order and the items of a note in list order
Before(a, b) == a[1] < b[1] \/ (a[1] = b[1] /\ a[2] < b[2])

\* C1: every order held by the processor has total_km = empty_km + loaded_km
\* and planned_total = planned_freight + planned_maut.
C1_DerivedFields ==
    \A i \in Orders :
        LET o == transport_orders[i]
        IN  /\ o.total_km = o.empty_km + o.loaded_km
            /\ o.planned_total = o.planned_freight + o.planned_maut

\* C2: after match_documents, an order whose number some line item carries has
\* the freight and toll of the item met last, and the number and date of the
\* note that holds that item.
C2_LastWriteWins ==
    runs >= 1 =>
        \A i \in Orders :
            \A last \in Carriers(transport_orders[i].order_number) :
                (\A c \in Carriers(transport_orders[i].order_number) :
                    c = last \/ Before(c, last))
                =>
                LET o == transport_orders[i]
                    note == gutschrifts[last[1]]
                    item == note.details[last[2]]
                IN  /\ o.gutschrift_number = note.number
                    /\ o.gutschrift_date = note.date
                    /\ o.gutschrift_freight = item.freight
                    /\ o.gutschrift_maut = item.maut

\* C2 witness: matching has run on an order whose number is carried by two
\* items of one note and by an item of another note.
C2_Witness ==
    /\ runs >= 1
    /\ \E i \in Orders :
          \E a, b, c \in Carriers(transport_orders[i].order_number) :
              /\ a[1] = b[1] /\ a[2] # b[2] /\ c[1] # a[1]
              /\ transport_orders[i].gutschrift_number # ""

\* C3: after match_documents, an order whose number is a key of the index has
\* the indexed note's number and date, the indexed item's freight and toll,
\* and 100 * gutschrift_amount = item.total * payment_percent; 100 percent
\* gives item.total, 50 percent of 1000.00 gives 500.00.
C3_IndexedFields ==
    runs >= 1 =>
        \A i \in Orders :
            LET o == transport_orders[i]
                index == detail_index(gutschrifts)
            IN  o.order_number \in DOMAIN index =>
                  LET note == index[o.order_number].gutschrift
                      item == index[o.order_number].detail
                  IN  /\ o.gutschrift_number = note.number
                      /\ o.gutschrift_date = note.date
                      /\ o.gutschrift_freight = item.freight
                      /\ o.gutschrift_maut = item.maut
                      /\ 100 * o.gutschrift_amount = item.total * o.payment_percent
                      /\ o.payment_percent = 100 => o.gutschrift_amount = item.total
                      /\ (o.payment_percent = 50 /\ item.total = 1000 * 10000)
                            => o.gutschrift_amount = 500 * 10000

\* C3 witness: a matched order at 50 percent of an item total of 1000.00, and
\* a matched order at 100 percent.
C3_Witness ==
    /\ runs >= 1
    /\ \E i \in Orders :
          /\ transport_orders[i].payment_percent = 50
          /\ transport_orders[i].gutschrift_amount = 500 * 10000
    /\ \E i \in Orders :
          /\ transport_orders[i].payment_percent = 100
          /\ transport_orders[i].gutschrift_amount > 0

\* C4: after match_documents on freshly loaded records, an order has an empty
\* gutschrift_number exactly when no line item of a loaded note carries its
\* order number, and then its five reconciliation fields have their defaults.
C4_UnmatchedIndicator ==
    runs >= 1 =>
        \A i \in Orders :
            LET o == transport_orders[i]
            IN  /\ o.gutschrift_number = "" <=> Carriers(o.order_number) = {}
                /\ o.gutschrift_number = "" => Recon(o) = Recon(OrderDefaults)

\* C4 witness: after matching, one order is matched and another is not, while
\* a credit note without a number was among the files.
C4_Witness ==
    /\ runs >= 1
    /\ \E i, j \in Orders :
          /\ transport_orders[i].gutschrift_number = ""
          /\ transport_orders[j].gutschrift_number # ""
    /\ \E g \in 1..Len(gs_files) : gutschrift_pdf(gs_files[g]).number = NoMatch

\* C5: the monetary variance in an order's report row is gutschrift_amount -
\* planned_total when the order has a note number and 0 (a blank cell) when it
\* has none.
C5_VarianceByNoteNumber ==
    op = "report" =>
        \A k \in Orders :
            LET o == transport_orders[indexer[k]]
            IN  df[k].Differenz_Preis =
                    MoneyOrBlank(IF o.gutschrift_number # ""
                                 THEN o.gutschrift_amount - o.planned_total
                                 ELSE 0)

\* C6: a second run of match_documents on unchanged lists leaves the five
\* reconciliation fields of every order as the first run set them.
C6_MatchIdempotent ==
    [][(runs >= 1 /\ runs' = runs + 1) =>
          /\ Len(transport_orders') = Len(transport_orders)
          /\ \A i \in Orders :
                Recon(transport_orders'[i]) = Recon(transport_orders[i])]_vars

\* C6 witness: match_documents has run twice and an order is matched.
C6_Witness ==
    /\ runs = 2
    /\ \E i \in Orders : transport_orders[i].gutschrift_amount > 0

\* C7: a step of match_documents or generate_report changes no field of an
\* order other than the five reconciliation fields, no credit note, and
\* neither list.
C7_Frame ==
    [][(runs' # runs \/ op' = "report") =>
          /\ Len(transport_orders') = Len(transport_orders)
          /\ \A i \in Orders :
                NonRecon(transport_orders'[i]) = NonRecon(transport_orders[i])
          /\ gutschrifts' = gutschrifts]_vars

\* C7 witness: a report was generated after matching filled an order whose
\* date differs from its line item's date.
C7_Witness ==
    /\ op = "report"
    /\ \E i \in Orders :
          /\ transport_orders[i].gutschrift_number # ""
          /\ transport_orders[i].date # <<15, 1, 2025>>

\* a list of labels without its empty labels and without repetitions, the
\* first occurrence kept
RECURSIVE FirstOccurrences(_)
FirstOccurrences(labels) ==
    IF labels = <<>> THEN <<>>
    ELSE LET init == FirstOccurrences(SubSeq(labels, 1, Len(labels) - 1))
             l == labels[Len(labels)]
         IN  IF l = "" \/ l \in Range(init) THEN init ELSE Append(init, l)

\* the route string the precedence rules give for origin labels L, destination
\* labels U and the tour field
RouteOf(L, U, tour) ==
    CASE Len(L) = 1 /\ Len(U) = 1 -> L[1] \o "-" \o U[1]
      [] Len(L) = 1 /\ Len(U) > 1 -> L[1] \o "-" \o Join("+", U)
      [] Len(L) > 1 /\ Len(U) >= 1 -> Join("-", L \o U)
      [] Len(L) >= 1 /\ Len(U) = 0 -> Join("-", L)
      [] Len(L) = 0 /\ Len(U) >= 1 -> Join("-", U)
      [] Len(L) = 0 /\ Len(U) = 0 -> tour

\* C8: the route of every report row is formed from the origin labels and the
\* destination labels deduplicated independently of each other, so a label on
\* both sides is kept on both sides ("City-City").
C8_IndependentDedup ==
    op = "report" =>
        \A k \in Orders :
            LET o == transport_orders[indexer[k]]
            IN  df[k].Tour = RouteOf(FirstOccurrences(Labels(o.loading_points)),
                                     FirstOccurrences(Labels(o.unloading_points)),
                                     o.tour)

\* C9: with L = unique_loads and U = unique_unloads, the route of every report
\* row is L1-U1 for one label each, L1-U1+U2+.. for one origin and several
\* destinations, all labels joined by "-" for several origins, the non-empty
\* side joined by "-" when one side is empty, and the tour field when both are.
C9_Precedence ==
    op = "report" =>
        \A k \in Orders :
            LET o == transport_orders[indexer[k]]
            IN  df[k].Tour = RouteOf(unique_loads(o), unique_unloads(o), o.tour)

\* C9 witness: the report holds the route of an order with one origin label
\* and two destination labels.
C9_Witness ==
    /\ op = "report"
    /\ \E k \in Orders :
          LET o == transport_orders[indexer[k]]
          IN  /\ Len(unique_loads(o)) = 1
              /\ Len(unique_unloads(o)) = 2
              /\ df[k].Tour = "Essen-Hamburg+Edeka"

\* C10: the per-order rows are in ascending order of parsed date, the rows
\* whose date does not parse come last, and rows with equal dates or both
\* without a parsed date keep their load order.
C10_StableDateOrder ==
    op = "report" =>
        \A k, l \in Orders :
            k < l =>
              LET a == to_datetime(transport_orders[indexer[k]].date)
                  b == to_datetime(transport_orders[indexer[l]].date)
              IN  /\ df[k].Datum = transport_orders[indexer[k]].date
                  /\ a = <<>> => b = <<>>
                  /\ (a # <<>> /\ b # <<>>) => a[1] <= b[1]
                  /\ a = b => indexer[k] < indexer[l]

\* C11: generate_report returns one row per held order followed by exactly one
\* aggregate row, which is the last row, when there is at least one order; with
\* no order it returns no row at all.
C11_RowsAndAggregate ==
    op = "report" =>
        LET n == Len(transport_orders)
        IN  IF n = 0 THEN df = <<>>
            ELSE /\ Len(df) = n + 1
                 /\ indexer \in RowOrders(n)
                 /\ \A k \in 1..n :
                       /\ df[k] = report_row(transport_orders[indexer[k]])
                       /\ df[k].Bearbeiter = "EV"
                 /\ df[n + 1].Datum = <<"GESAMT">>
                 /\ df[n + 1].Bearbeiter = ""

\* C11 witness: a report over two orders, three rows long.
C11_Witness ==
    /\ op = "report"
    /\ Len(transport_orders) = 2
    /\ Len(df) = 3
    /\ df[3].Datum = <<"GESAMT">>

\* C12: in the aggregate row every numeric column (planned km, gps km, planned
\* maut, reconciled maut, planned freight, planned total, reconciled amount, km
\* variance) is the sum of that value over all orders, and the monetary
\* variance column is the sum of gutschrift_amount - planned_total over exactly
\* the matched orders, those with a note number.
C12_AggregateSums ==
    (op = "report" /\ transport_orders # <<>>) =>
        LET n == Len(transport_orders)
            agg == df[n + 1]
            Sum(f(_)) == SumSeq([i \in 1..n |-> f(transport_orders[i])])
            total_km(o) == o.total_km
            gps_km(o) == o.gps_km
            planned_maut(o) == o.planned_maut
            gutschrift_maut(o) == o.gutschrift_maut
            planned_freight(o) == o.planned_freight
            planned_total(o) == o.planned_total
            gutschrift_amount(o) == o.gutschrift_amount
            km_variance(o) == o.gps_km - o.total_km
            variance(o) == IF o.gutschrift_number # ""
                           THEN o.gutschrift_amount - o.planned_total ELSE 0
        IN  /\ agg.Auftrag_km = Sum(total_km)
            /\ agg.GPS_km = Sum(gps_km)
            /\ agg.Maut_Auftrag = Money(Sum(planned_maut))
            /\ agg.Maut_Gefahren = Money(Sum(gutschrift_maut))
            /\ agg.Preis_Plan = Money(Sum(planned_freight))
            /\ agg.Preis_Tatsaechlich = Money(Sum(planned_total))
            /\ agg.Gutschrift = Money(Sum(gutschrift_amount))
            /\ agg.Differenz_km = Sum(km_variance)
            /\ agg.Differenz_Preis = Money(Sum(variance))

\* C13: in the aggregate row every descriptive column (date, order number,
\* route, loading points, unloading points, note reference, vehicle, payment
\* percent) is blank.
C13_AggregateBlank ==
    (op = "report" /\ transport_orders # <<>>) =>
        LET agg == df[Len(transport_orders) + 1]
        IN  /\ agg.Datum = <<>>
            /\ agg.Tournummer = ""
            /\ agg.Tour = ""
            /\ agg.Ladestellen = <<>>
            /\ agg.Entladestellen = <<>>
            /\ agg.GS_Datum = <<>>
            /\ agg.LKW = ""
            /\ agg.Prozent = <<>>

\* C13 amended: in the aggregate row the date column holds the label GESAMT
\* and every other descriptive column (order number, route, loading points,
\* unloading points, note reference, vehicle, payment percent) is blank.
C13_AggregateLabelled ==
    (op = "report" /\ transport_orders # <<>>) =>
        LET agg == df[Len(transport_orders) + 1]
        IN  /\ agg.Datum = <<"GESAMT">>
            /\ agg.Tournummer = ""
            /\ agg.Tour = ""
            /\ agg.Ladestellen = <<>>
            /\ agg.Entladestellen = <<>>
            /\ agg.GS_Datum = <<>>
            /\ agg.LKW = ""
            /\ agg.Prozent = <<>>

\* C13 witness: the aggregate row of a report whose order rows all have a
\* vehicle, a route and a note reference.
C13_Witness ==
    /\ op = "report"
    /\ transport_orders # <<>>
    /\ \A k \in Orders :
          /\ df[k].LKW # ""
          /\ df[k].Tour # ""
          /\ df[k].GS_Datum # <<>>
    /\ df[Len(transport_orders) + 1].Datum = <<"GESAMT">>

\* the order behind row k of the report
RowOrder(k) == transport_orders[indexer[k]]

\* monetary variance of an order: gutschrift_amount - planned_total when the
\* order has a note number, else 0 (in 1/10000 EUR)
Variance(o) ==
    IF o.gutschrift_number # "" THEN o.gutschrift_amount - o.planned_total ELSE 0

\* C14: in every per-order row the flags are set independently: unmatched
\* exactly when the order has no note number, partial_payment exactly when
\* payment_percent < 100, significant_negative_variance exactly when the
\* order's monetary variance is below -50 EUR; a matched order paid in full,
\* credited its planned total and with gps_km = total_km has no flag.
C14_Flags ==
    op = "export" =>
        \A k \in Orders :
            LET o == RowOrder(k)
                f == fills[k]
            IN  /\ f.unmatched <=> o.gutschrift_number = ""
                /\ f.partial_payment <=> o.payment_percent < 100
                /\ f.significant_negative_variance <=> Variance(o) < -500000
                /\ (/\ o.gutschrift_number # ""
                    /\ o.payment_percent = 100
                    /\ o.gutschrift_amount = o.planned_total
                    /\ o.gps_km = o.total_km)
                   => /\ ~f.unmatched
                      /\ ~f.large_km_deviation
                      /\ ~f.partial_payment
                      /\ ~f.significant_negative_variance

\* C15: in every per-order row large_km_deviation is set exactly when
\* total_km > 0 and 10 * |gps_km - total_km| > total_km; a row with
\* total_km = 0 never sets it.
C15_KmDeviation ==
    op = "export" =>
        \A k \in Orders :
            LET o == RowOrder(k)
                d == o.gps_km - o.total_km
            IN  fills[k].large_km_deviation <=>
                    /\ o.total_km > 0
                    /\ 10 * (IF d < 0 THEN -d ELSE d) > o.total_km

\* C16: every order whose gps_km was not separately supplied (no constructor
\* call of Spec supplies it, and the parser never does) has gps_km = total_km
\* in the state the report is built from, so the km variance of its row is 0;
\* with empty_km = 50 and loaded_km = 450 that is gps_km = 500, total_km = 500.
C16_GpsDefault ==
    op = "report" =>
        \A k \in Orders :
            LET o == RowOrder(k)
            IN  /\ o.gps_km = o.total_km
                /\ df[k].Differenz_km = 0
                /\ (o.empty_km = 50 /\ o.loaded_km = 450)
                   => (o.gps_km = 500 /\ o.total_km = 500)

\* an order document parses: it has text and the order number pattern matches
OrderParses(doc) == doc.kind = "text" /\ doc.number # NoMatch

\* a credit-note document parses: it has text and the number pattern matches
NoteParses(doc) == doc.kind = "text" /\ doc.number # NoMatch

\* the documents among the first n files, in file order, that parse
Parsed(files, n, pdf(_), parses(_)) ==
    SelectSeq([i \in 1..n |-> pdf(files[i])], parses)

\* the orders held that came from load_documents, after the constructed ones
LoadedOrders ==
    SubSeq(transport_orders,
           Len(transport_orders) - Len(Parsed(sorted(order_files), oi, order_pdf, OrderParses)) + 1,
           Len(transport_orders))

\* the lists hold the documents visited so far that parse, in file order
\* (the orders after those the caller constructed)
LoadedSoFar ==
    LET orders == Parsed(sorted(order_files), oi, order_pdf, OrderParses)
        notes == Parsed(sorted(gs_files), gi, gutschrift_pdf, NoteParses)
    IN  /\ Len(transport_orders) >= Len(orders)
        /\ \A i \in 1..Len(orders) :
              /\ LoadedOrders[i].order_number =
                     Concat(SelectSeq(orders[i].number[1], LAMBDA c : c # " "))
              /\ LoadedOrders[i].date =
                     IF orders[i].date = NoMatch THEN <<>> ELSE orders[i].date[1]
        /\ Len(gutschrifts) = Len(notes)
        /\ \A i \in 1..Len(notes) : gutschrifts[i].number = notes[i].number[1]

\* one visit of load_documents: a document that parses adds one entry at the
\* end of its list, any other document leaves both lists as they were
VisitIsolated ==
    /\ oi' = oi + 1 =>
          /\ gutschrifts' = gutschrifts
          /\ IF OrderParses(order_pdf(sorted(order_files)[oi + 1]))
             THEN /\ Len(transport_orders') = Len(transport_orders) + 1
                  /\ SubSeq(transport_orders', 1, Len(transport_orders))
                         = transport_orders
             ELSE transport_orders' = transport_orders
    /\ gi' = gi + 1 =>
          /\ transport_orders' = transport_orders
          /\ IF NoteParses(gutschrift_pdf(sorted(gs_files)[gi + 1]))
             THEN /\ Len(gutschrifts') = Len(gutschrifts) + 1
                  /\ SubSeq(gutschrifts', 1, Len(gutschrifts)) = gutschrifts
             ELSE gutschrifts' = gutschrifts

\* C17: a document whose parse fails (no text, no order number, no note
\* number, an exception while parsing) is left out of the loaded lists and
\* does not stop load_documents: every visit changes the lists by at most the
\* one document visited, and after it the lists hold exactly the documents
\* visited so far that parse, in file order.
C17_ParseFailureIsolated == [][VisitIsolated /\ LoadedSoFar']_vars

\* C17 witness: the load went past an unreadable order document and a credit
\* note without text and still loaded a later document of each kind.
C17_Witness ==
    /\ Loaded
    /\ \E i, j \in 1..Len(order_files) :
          /\ i < j
          /\ order_pdf(sorted(order_files)[i]).kind = "corrupt"
          /\ OrderParses(order_pdf(sorted(order_files)[j]))
    /\ \E i, j \in 1..Len(gs_files) :
          /\ i < j
          /\ gutschrift_pdf(sorted(gs_files)[i]).kind = "empty"
          /\ NoteParses(gutschrift_pdf(sorted(gs_files)[j]))
    /\ LoadedOrders # <<>>
    /\ gutschrifts # <<>>

\* C18: the index build and the matching of any order start only after every
\* order document and every credit-note document of the batch has been
\* parsed, and report generation starts only after matching has visited every
\* order: no document is parsed and no order is added once matching has run,
\* and the report is built from orders that the last matching left unchanged.
C18_Barrier ==
    [][/\ runs' # runs =>
             /\ oi = Len(order_files)
             /\ gi = Len(gs_files)
             /\ transport_orders' = match_all(transport_orders, gutschrifts)
       /\ runs >= 1 =>
             /\ oi' = oi /\ gi' = gi
             /\ gutschrifts' = gutschrifts
             /\ Len(transport_orders') = Len(transport_orders)
       /\ op' = "report" =>
             /\ runs >= 1
             /\ transport_orders = match_all(transport_orders, gutschrifts)
             /\ transport_orders' = transport_orders]_vars

\* C18 witness: a report over two orders and a credit note, built after the
\* whole batch was parsed and matched.
C18_Witness ==
    /\ op = "report"
    /\ oi = Len(order_files) /\ oi >= 2
    /\ gi = Len(gs_files) /\ gi >= 1
    /\ runs >= 1
    /\ \E k \in Orders : transport_orders[k].gutschrift_number # ""

\* C19: every order returned by parse_transport_order has payment_percent in
\* 1..100: 100 when the text has no percent marker, otherwise the integer
\* before the marker; a marker with 0 or more than 100 does not yield an order
\* with payment_percent outside 1..100.
C19_PercentRange ==
    LET docs == Parsed(sorted(order_files), oi, order_pdf, OrderParses)
    IN  \A i \in 1..Len(docs) :
            LET percent == LoadedOrders[i].payment_percent
            IN  /\ percent \in 1..100
                /\ docs[i].percent = NoMatch => percent = 100
                /\ (/\ docs[i].percent # NoMatch
                    /\ DigitsVal(docs[i].percent[1]) \in 1..100)
                   => percent = DigitsVal(docs[i].percent[1])

\* a block with text for all six fields
Complete(b) ==
    /\ b.transport_order # <<>> /\ b.date # <<>> /\ b.vehicle # <<>>
    /\ b.freight # <<>> /\ b.maut # <<>> /\ b.total # <<>>

\* the line items of the complete blocks, in block order
CompleteItems(blocks) ==
    LET kept == SelectSeq(blocks, Complete)
    IN  [i \in 1..Len(kept) |->
            GutschriftDetail([f \in DOMAIN kept[i] |-> kept[i][f][1]])]

\* C20: the details of a parsed credit note hold exactly one line item for
\* each block that has all six fields (order number, date, vehicle, freight,
\* toll, total), in block order, and none for a block that lacks one: an
\* incomplete block neither removes the block after it nor lends its order
\* number to the amounts of another block.
C20_BlocksSkippedAlone ==
    LET docs == Parsed(sorted(gs_files), gi, gutschrift_pdf, NoteParses)
    IN  /\ Len(gutschrifts) = Len(docs)
        /\ \A g \in 1..Len(docs) :
              gutschrifts[g].details = CompleteItems(docs[g].blocks)

\* a locale-formatted amount: digits, in groups of three after the first
\* group when '.' separates them, then optionally ',' and decimals
LocaleNumber(text) ==
    LET commas == {i \in 1..Len(text) : text[i] = ","}
        p == IF commas = {} THEN Len(text) + 1 ELSE CHOOSE i \in commas : TRUE
        whole == SubSeq(text, 1, p - 1)
        dots == {i \in 1..Len(whole) : whole[i] = "."}
    IN  /\ \A i \in 1..Len(text) : text[i] \in Digits \cup {",", "."}
        /\ Cardinality(commas) <= 1
        /\ commas # {} => p < Len(text)
        /\ \A i \in (p + 1)..Len(text) : text[i] # "."
        /\ whole # <<>>
        /\ dots # {} =>
              /\ 1 \notin dots
              /\ \A i \in dots : i - 1 \in 1..3 \/ i - 4 \in dots
              /\ \A i \in dots : i + 4 \in dots \/ i + 3 = Len(whole)
              /\ \A i \in dots : \A j \in dots : j > i => j >= i + 4

\* the value of a locale-formatted amount in 1/10000: '.' separates
\* thousands, ',' starts the decimals
LocaleValue(text) ==
    LET commas == {i \in 1..Len(text) : text[i] = ","}
        p == IF commas = {} THEN Len(text) + 1 ELSE CHOOSE i \in commas : TRUE
        whole == SelectSeq(SubSeq(text, 1, p - 1), LAMBDA c : c \in Digits)
        part == SubSeq(text, p + 1, Len(text))
        kept == IF Len(part) > 4 THEN SubSeq(part, 1, 4) ELSE part
    IN  DigitsVal(whole) * 10000 + DigitsVal(kept) * Pow10(4 - Len(kept))

\* C21: for an order text whose priced section holds two locale-formatted
\* amounts, planned_freight and planned_maut of the parsed order are the
\* values of those amounts with '.' as thousands separator and ',' as decimal
\* separator; 1.234,56 EUR is parsed as 1234.56.
C21_PricedAmounts ==
    LET docs == Parsed(sorted(order_files), oi, order_pdf, OrderParses)
    IN  \A i \in 1..Len(docs) :
            (/\ docs[i].price # NoMatch
             /\ LocaleNumber(docs[i].price[1])
             /\ LocaleNumber(docs[i].price[2]))
            => /\ LoadedOrders[i].planned_freight = LocaleValue(docs[i].price[1])
               /\ LoadedOrders[i].planned_maut = LocaleValue(docs[i].price[2])

\* the amount texts handed to parse_german_number for a parsed order, each
\* with the value the order keeps for it
OrderNumberTexts(doc, o) ==
    IF price_section(doc) = NoMatch THEN {}
    ELSE {<<price_section(doc)[1], o.planned_freight>>,
          <<price_section(doc)[2], o.planned_maut>>}

\* the same for the line items of a parsed credit note
NoteNumberTexts(doc, g) ==
    LET found == finditer(detail_text(doc.blocks), 1)
    IN  UNION {{<<found[d].freight, g.details[d].freight>>,
                <<found[d].maut, g.details[d].maut>>,
                <<found[d].total, g.details[d].total>>} :
               d \in 1..Len(found)}

\* C22: parse_german_number never raises: a text that is not a well-formed
\* locale number (empty, several decimal commas, no digits, groups that are
\* not thousands) gives 0.0, the field it feeds keeps that 0.0, and the
\* document it stands in is parsed all the same.
C22_MalformedIsZero ==
    LET orders == Parsed(sorted(order_files), oi, order_pdf, OrderParses)
        notes == Parsed(sorted(gs_files), gi, gutschrift_pdf, NoteParses)
    IN  /\ LoadedSoFar
        /\ \A i \in 1..Len(orders) :
              \A t \in OrderNumberTexts(orders[i], LoadedOrders[i]) :
                  ~LocaleNumber(t[1]) => t[2] = 0
        /\ \A g \in 1..Len(notes) :
              /\ Len(gutschrifts[g].details)
                     = Len(finditer(detail_text(notes[g].blocks), 1))
              /\ \A t \in NoteNumberTexts(notes[g], gutschrifts[g]) :
                     ~LocaleNumber(t[1]) => t[2] = 0

\* C23: the two fallbacks of parse_transport_order (the LEER IN marker, then
\* the LEER IN token inside the loading instructions) run in that order and
\* write only a list that is still empty: a loading or unloading list that its
\* section filled with at least one address is the section's list after the
\* fallbacks, and an empty loading list takes the city of the first marker.
C23_FallbacksFillEmptyOnly ==
    LET docs == Parsed(sorted(order_files), oi, order_pdf, OrderParses)
    IN  \A i \in 1..Len(docs) :
            LET o == LoadedOrders[i]
            IN  /\ loading_section(docs[i]) # <<>>
                   => o.loading_points = loading_section(docs[i])
                /\ unloading_section(docs[i]) # <<>>
                   => o.unloading_points = unloading_section(docs[i])
                /\ (loading_section(docs[i]) = <<>> /\ docs[i].leer_in # NoMatch)
                   => o.loading_points = <<token_address(docs[i].leer_in[1])>>

\* C23 witness: one order parsed from a text with both sections filled and a
\* LEER IN marker in its loading instructions, and one parsed from a text
\* without any address and two different markers, which took the first.
C23_Witness ==
    LET docs == Parsed(sorted(order_files), oi, order_pdf, OrderParses)
    IN  \E i, j \in 1..Len(docs) :
            /\ loading_section(docs[i]) # <<>>
            /\ unloading_section(docs[i]) # <<>>
            /\ docs[i].leer_in # NoMatch /\ docs[i].instr # NoMatch
            /\ LoadedOrders[i].loading_points = loading_section(docs[i])
            /\ loading_section(docs[j]) = <<>>
            /\ docs[j].leer_in # NoMatch /\ docs[j].instr # NoMatch
            /\ docs[j].leer_in # docs[j].instr
            /\ LoadedOrders[j].loading_points
                   = <<token_address(docs[j].leer_in[1])>>
            /\ LoadedOrders[j].unloading_points = <<>>

\* C26: anomaly flags are set on per-order rows only: after the export the
\* aggregate row of the main report is not marked unmatched,
\* large_km_deviation, partial_payment or significant_negative_variance,
\* whatever the orders' values are.
C26_AggregateUnflagged ==
    (op = "export" /\ transport_orders # <<>>) =>
        LET f == fills[Len(transport_orders) + 1]
        IN  /\ Len(fills) = Len(transport_orders) + 1
            /\ ~f.unmatched
            /\ ~f.large_km_deviation
            /\ ~f.partial_payment
            /\ ~f.significant_negative_variance

\* the names of a set of files in ascending order
Ascending(S) ==
    CHOOSE s \in SortedSeqs(S, Cardinality(S)) : Len(s) = Cardinality(S)

\* the credit notes that the set of credit-note files yields, in ascending
\* file-name order
NotesOfNames ==
    LET notes == Parsed(Ascending(Range(gs_files)), gi, gutschrift_pdf,
                        NoteParses)
    IN  [i \in 1..Len(notes) |-> parse_gutschrift(notes[i])[1]]

\* the positions in NotesOfNames of the notes with a line item for a number
NotesFor(number) ==
    {g \in 1..Len(NotesOfNames) :
        \E d \in 1..Len(NotesOfNames[g].details) :
            NotesOfNames[g].details[d].transport_order = number}

Processed(u) ==
    called("match_documents", called("load_documents", new_processor, u), u)

\* the details of the completed dict of each request
CompletedDetails ==
    {completed_dict(request_stats(Processed(uploads[r]))).details :
        r \in Requests}

\* C24: in every state of the service, with two /upload requests in flight on
\* the shared processing_status, status 'completed' goes with progress 100 and
\* details that are the statistics of one request, status 'error' goes with
\* progress 0, and no request writes its progress, message or counts into a
\* dict that another request bound.
C24_StatusOfOneRequest ==
    [][/\ processing_status'.status = "completed" =>
             /\ processing_status'.progress = 100
             /\ processing_status'.details \in CompletedDetails
       /\ processing_status'.status = "error" =>
             processing_status'.progress = 0
       /\ \A r \in Requests :
             (pc[r] \in InPlace /\ pc'[r] # pc[r]) => bound_by = r]_vars

====
